---- MODULE Spec2Model ----
(***************************************************************************)
(* Model of the gcloud plugin of gloo: the translation plugin              *)
(* (plugin.Init / ProcessUpstream / ProcessRoute / HttpFilters) and the    *)
(* function discovery (GcloudGfuncFunctionDiscovery.DetectFunctions).      *)
(* Source: src/projects/gloo/cli/pkg/cmd/create/secret/gcloud.go           *)
(***************************************************************************)
EXTENDS Integers, Sequences, FiniteSets, TLC

(***************************************************************************)
(* Program constants                                                       *)
(***************************************************************************)
filterName == "io.solo.gcloud_gfunc"
pluginStage == "OutAuth"
accessKey == "access_key"
jsonKey == "json_key"
gcloudAccessKey == "access_key"
gcloudJsonKey == "json_key"
statusReady == "READY"
statusActive == "ACTIVE"

(***************************************************************************)
(* Input pools                                                             *)
(***************************************************************************)
Refs == {"u1", "u2"}
NoRef == "nil"
SecretRefs == {"s1", "s2"}

\* credential strings are byte sequences; 65 = 'A', 195 169 = U+00E9,
\* 255 and a lone 195 are not valid UTF-8
AccessKeys == {<< >>, <<65>>, <<255>>}
JsonKeys == {<< >>, <<195, 169>>, <<195>>}

Fn(l, n, u) == [LogicalName |-> l, GfuncFunctionName |-> n, Url |-> u]
\* the function lists of the upstreams of a Snapshot; logical names are
\* unique within a list
FunctionLists ==
    { << Fn("f1", "g1", "url1"), Fn("f3", "g3", "url3") >> }
LogicalNames == {"f1", "f2"}

GcloudSpecs ==
    [Region : {"us"}, ProjectId : {"p1"}, SecretRef : SecretRefs,
     GfuncFunctions : FunctionLists]
NoGcloudSpec ==
    [Region |-> "", ProjectId |-> "", SecretRef |-> "", GfuncFunctions |-> << >>]

\* v1.Upstream as far as the plugin reads it
UpstreamInputs ==
    [Ref : Refs, Type : {"gcloud"}, Gcloud : GcloudSpecs]
    \cup [Ref : Refs, Type : {"kube"}, Gcloud : {NoGcloudSpec}]
NoUpstream == [Ref |-> NoRef, Type |-> "", Gcloud |-> NoGcloudSpec]

\* v1.Secret as far as the plugin reads it
GcloudSecrets == [Kind : {"gcloud"}, AccessKey : AccessKeys, JsonKey : JsonKeys]
OtherSecret == [Kind |-> "aws", AccessKey |-> << >>, JsonKey |-> << >>]
SecretValues == GcloudSecrets \cup {OtherSecret}
GoodSecret == [Kind |-> "gcloud", AccessKey |-> <<65>>, JsonKey |-> <<195, 169>>]
\* Snapshot.Secrets: a list with at most one secret per ref; the secret "s1"
\* ranges over every value, the secret "s2" is absent or a well-formed one
SecretLists ==
    { l \in UNION { [S -> SecretValues] : S \in SUBSET SecretRefs } :
        "s2" \in DOMAIN l => l["s2"] = GoodSecret }

\* v1.Route with a single destination, as far as the plugin reads it
RouteInputs ==
    [Upstream : Refs \cup {NoRef}, DestinationSpec : {"nil", "aws"},
     LogicalName : {""}, ResponseTransformation : {FALSE}]
    \cup [Upstream : Refs \cup {NoRef}, DestinationSpec : {"gcloud"},
          LogicalName : LogicalNames, ResponseTransformation : BOOLEAN]
NoRoute ==
    [Upstream |-> NoRef, DestinationSpec |-> "nil", LogicalName |-> "",
     ResponseTransformation |-> FALSE]

\* envoyapi.Cluster as far as the plugin writes it
BlankCluster ==
    [ClusterDiscoveryType |-> "", DnsLookupFamily |-> "", LoadAssignment |-> << >>,
     Sni |-> << >>, ExtensionProtocolOptions |-> << >>]
\* the cluster the translator hands to ProcessUpstream
StaticCluster ==
    [ClusterDiscoveryType |-> "STATIC", DnsLookupFamily |-> "AUTO",
     LoadAssignment |-> << >>, Sni |-> << >>, ExtensionProtocolOptions |-> << >>]
ClusterInputs == {StaticCluster}

\* envoyroute.Route.PerFilterConfig, by filter
NoConfig == << >>
BlankPerFilter == [gcloud |-> NoConfig, transformation |-> NoConfig]

(***************************************************************************)
(* Errors: nil is the empty sequence, a plain error is a one-element       *)
(* sequence, a multierror holds one element per appended error.            *)
(***************************************************************************)
NoErr == << >>
Err(msg, arg) == << [msg |-> msg, arg |-> arg] >>
multierrorAppend(errs, e) == errs \o e
ErrNames(err, arg) == \E i \in 1..Len(err) : err[i].arg = arg

(***************************************************************************)
(* unicode/utf8.Valid                                                      *)
(***************************************************************************)
IsCont(b, lo, hi) == b >= lo /\ b <= hi

RECURSIVE utf8Valid(_)
utf8Valid(p) ==
    IF Len(p) = 0 THEN TRUE
    ELSE LET b == p[1]
             rest(n) == SubSeq(p, n + 1, Len(p))
             two(lo, hi) == Len(p) >= 2 /\ IsCont(p[2], lo, hi)
                            /\ utf8Valid(rest(2))
             three(lo, hi) == Len(p) >= 3 /\ IsCont(p[2], lo, hi)
                              /\ IsCont(p[3], 128, 191) /\ utf8Valid(rest(3))
             four(lo, hi) == Len(p) >= 4 /\ IsCont(p[2], lo, hi)
                             /\ IsCont(p[3], 128, 191) /\ IsCont(p[4], 128, 191)
                             /\ utf8Valid(rest(4))
         IN  IF b < 128 THEN utf8Valid(rest(1))
             ELSE IF b >= 194 /\ b <= 223 THEN two(128, 191)
             ELSE IF b = 224 THEN three(160, 191)
             ELSE IF b = 237 THEN three(128, 159)
             ELSE IF b >= 225 /\ b <= 239 THEN three(128, 191)
             ELSE IF b = 240 THEN four(144, 191)
             ELSE IF b >= 241 /\ b <= 243 THEN four(128, 191)
             ELSE IF b = 244 THEN four(128, 143)
             ELSE FALSE

(***************************************************************************)
(* Helpers of the translation plugin                                       *)
(***************************************************************************)
getGfuncHostname(s) == << s.Region, "-", s.ProjectId, ".cloudfunctions.net" >>

\* v1.SecretList.Find
SecretsFind(list, ref) ==
    IF ref \in DOMAIN list
    THEN [secret |-> list[ref], err |-> NoErr]
    ELSE [secret |-> OtherSecret, err |-> Err("list did not find secret", ref)]

\* pluginutils.EnvoySingleEndpointLoadAssignment
EnvoySingleEndpointLoadAssignment(out, address, port) ==
    [out EXCEPT !.LoadAssignment = << address, port >>]

\* pluginutils.SetExtenstionProtocolOptions
SetExtenstionProtocolOptions(out, name, lpe) ==
    [out EXCEPT !.ExtensionProtocolOptions = << name, lpe >>]

(***************************************************************************)
(* State                                                                   *)
(***************************************************************************)
VARIABLES
    recordedUpstreams,  \* plugin.recordedUpstreams: Ref -> *gcloud.UpstreamSpec
    initialized,        \* Init has run: the map is not the nil map
    transformsAdded,    \* *plugin.transformsAdded, shared with the caller
    secrets,            \* params.Snapshot.Secrets of the current pass
    pass,               \* history: upstreams handed to ProcessUpstream in this pass
    prev,               \* history: the refs recorded when the current pass began
    last,               \* the last hook call: its inputs and what it returned
    fUpstream,          \* GcloudGfuncFunctionDiscovery.upstream
    stored,             \* the live Upstream in storage that updatecb mutates
    depSecrets,         \* what dependencies().Secrets returns now
    pc,                 \* where DetectFunctions is: poll, backoff, sleep, returned
    cancelled,          \* ctx.Err() != nil
    ret,                \* what DetectFunctions returned
    attempt             \* the last run of the Backoff callback: inputs and outcome

tvars == << recordedUpstreams, initialized, transformsAdded, secrets, pass, prev, last >>
dvars == << fUpstream, stored, depSecrets, pc, cancelled, ret, attempt >>
vars == << tvars, dvars >>

EmptyMap == [r \in {} |-> NoGcloudSpec]
EmptyPass == [r \in {} |-> [in |-> NoUpstream, err |-> NoErr]]

Call(op, upstream, route, outBefore, cluster, perFilter, filters, err) ==
    [op |-> op, upstream |-> upstream, route |-> route, outBefore |-> outBefore,
     cluster |-> cluster, perFilter |-> perFilter, filters |-> filters, err |-> err]
NoCall ==
    Call("NewPlugin", NoUpstream, NoRoute, BlankCluster, BlankCluster,
         BlankPerFilter, << >>, NoErr)

(***************************************************************************)
(* plugin.ProcessUpstream                                                  *)
(***************************************************************************)
\* variant: the map is replaced by one holding only the new entry
recordUpstreamReplaces(rec, ref, spec) ==
    [r \in {ref} |-> spec]

\* p.recordedUpstreams[in.Metadata.Ref()] = upstreamSpec.Gcloud
recordUpstream(rec, ref, spec) ==
    [r \in DOMAIN rec \cup {ref} |-> IF r = ref THEN spec ELSE rec[r]]

\* the secretErrs of ProcessUpstream: every bad field is appended
upstreamSecretErrs(ak, jk) ==
    LET e1 == IF ak = << >> \/ ~utf8Valid(ak)
              THEN multierrorAppend(NoErr, Err("is not a valid string", accessKey))
              ELSE NoErr
    IN  IF jk = << >> \/ ~utf8Valid(jk)
        THEN multierrorAppend(e1, Err("is not a valid string", jsonKey))
        ELSE e1

\* variant: the TLS context is set only after the secret is resolved
configureClusterNoSni(out, hostname) ==
    LET o1 == [out EXCEPT !.ClusterDiscoveryType = "LOGICAL_DNS",
                          !.DnsLookupFamily = "V4_ONLY"]
    IN  EnvoySingleEndpointLoadAssignment(o1, hostname, 443)

\* the cluster routing info set before the secret is looked up
configureCluster(out, hostname) ==
    LET o1 == [out EXCEPT !.ClusterDiscoveryType = "LOGICAL_DNS",
                          !.DnsLookupFamily = "V4_ONLY"]
        o2 == EnvoySingleEndpointLoadAssignment(o1, hostname, 443)
    IN  [o2 EXCEPT !.Sni = hostname]

\* variant: the kind of the secret is not checked
resolveSecretAnyKind(snapSecrets, spec, hostname, out) ==
    LET found == SecretsFind(snapSecrets, spec.SecretRef)
        errs == upstreamSecretErrs(found.secret.AccessKey, found.secret.JsonKey)
        lpe == [Host |-> hostname, Region |-> spec.Region,
                AccessKey |-> found.secret.AccessKey, JsonKey |-> found.secret.JsonKey]
    IN  IF found.err # NoErr
        THEN [out |-> out, err |-> Err("retrieving gcloud secret", spec.SecretRef)]
        ELSE IF errs # NoErr
        THEN [out |-> out, err |-> errs]
        ELSE [out |-> SetExtenstionProtocolOptions(out, filterName, lpe), err |-> NoErr]

\* the part of ProcessUpstream from the secret lookup on: the cluster and the error
resolveSecret(snapSecrets, spec, hostname, out) ==
    LET found == SecretsFind(snapSecrets, spec.SecretRef)
        errs == upstreamSecretErrs(found.secret.AccessKey, found.secret.JsonKey)
        lpe == [Host |-> hostname, Region |-> spec.Region,
                AccessKey |-> found.secret.AccessKey, JsonKey |-> found.secret.JsonKey]
    IN  IF found.err # NoErr
        THEN [out |-> out, err |-> Err("retrieving gcloud secret", spec.SecretRef)]
        ELSE IF found.secret.Kind # "gcloud"
        THEN [out |-> out, err |-> Err("secret is not an GCLOUD secret", spec.SecretRef)]
        ELSE IF errs # NoErr
        THEN [out |-> out, err |-> errs]
        ELSE [out |-> SetExtenstionProtocolOptions(out, filterName, lpe), err |-> NoErr]

\* variant: the upstream is recorded once its secret is resolved
processGcloudUpstreamRecordsLast(rec, snapSecrets, in, out) ==
    LET hostname == getGfuncHostname(in.Gcloud)
        r == resolveSecret(snapSecrets, in.Gcloud, hostname,
                           configureCluster(out, hostname))
    IN  [rec |-> IF r.err = NoErr THEN recordUpstream(rec, in.Ref, in.Gcloud) ELSE rec,
         out |-> r.out, err |-> r.err]

\* ProcessUpstream past the type check: record, configure, resolve the secret
processGcloudUpstream(rec, snapSecrets, in, out) ==
    LET hostname == getGfuncHostname(in.Gcloud)
        r == resolveSecret(snapSecrets, in.Gcloud, hostname,
                           configureCluster(out, hostname))
    IN  [rec |-> recordUpstream(rec, in.Ref, in.Gcloud), out |-> r.out, err |-> r.err]

\* variant: the upstream is recorded before its type is checked
processUpstreamRecordsFirst(rec, snapSecrets, in, out) ==
    IF in.Type # "gcloud"
    THEN [rec |-> recordUpstream(rec, in.Ref, in.Gcloud), out |-> out, err |-> NoErr]
    ELSE processGcloudUpstream(rec, snapSecrets, in, out)

\* the whole method: the map, the cluster and the error it leaves
processUpstream(rec, snapSecrets, in, out) ==
    IF in.Type # "gcloud"
    THEN [rec |-> rec, out |-> out, err |-> NoErr]
    ELSE processGcloudUpstream(rec, snapSecrets, in, out)

(***************************************************************************)
(* plugin.ProcessRoute                                                     *)
(***************************************************************************)
\* variant: a name that matches no function yields no config and no error
RECURSIVE findFunctionSilent(_, _)
findFunctionSilent(functions, logicalName) ==
    IF functions = << >>
    THEN [config |-> NoConfig, err |-> NoErr]
    ELSE IF Head(functions).LogicalName = logicalName
    THEN [config |-> << Head(functions).GfuncFunctionName, Head(functions).Url >>,
          err |-> NoErr]
    ELSE findFunctionSilent(Tail(functions), logicalName)

\* the loop over gfuncSpec.GfuncFunctions: first function with that LogicalName
RECURSIVE findFunction(_, _)
findFunction(functions, logicalName) ==
    IF functions = << >>
    THEN [config |-> NoConfig, err |-> Err("unknown function", logicalName)]
    ELSE IF Head(functions).LogicalName = logicalName
    THEN [config |-> << Head(functions).GfuncFunctionName, Head(functions).Url >>,
          err |-> NoErr]
    ELSE findFunction(Tail(functions), logicalName)

\* the callback building the gcloud per-route config
gfuncPerRoute(rec, dest) ==
    IF dest.DestinationSpec = "nil" \/ dest.Upstream = NoRef
    THEN [config |-> NoConfig, err |-> NoErr]
    ELSE IF dest.DestinationSpec # "gcloud"
    THEN [config |-> NoConfig, err |-> NoErr]
    ELSE IF dest.Upstream \notin DOMAIN rec
    THEN [config |-> NoConfig, err |-> Err("is not an GCLOUD upstream", dest.Upstream)]
    ELSE findFunction(rec[dest.Upstream].GfuncFunctions, dest.LogicalName)

ResponseTransform == << "{{body}}", "content-type", "text/html" >>

\* the callback building the response transformation config
transformPerRoute(dest) ==
    IF dest.DestinationSpec = "nil"
    THEN [config |-> NoConfig, added |-> FALSE]
    ELSE IF dest.DestinationSpec # "gcloud"
    THEN [config |-> NoConfig, added |-> FALSE]
    ELSE IF ~dest.ResponseTransformation
    THEN [config |-> NoConfig, added |-> FALSE]
    ELSE [config |-> ResponseTransform, added |-> TRUE]

\* the whole method: the per-filter config of the route, the flag and the error
processRoute(rec, flag, in, out) ==
    LET g == gfuncPerRoute(rec, in)
        t == transformPerRoute(in)
    IN  IF g.err # NoErr
        THEN [perFilter |-> out, flag |-> flag, err |-> g.err]
        ELSE [perFilter |-> [out EXCEPT !.gcloud = g.config, !.transformation = t.config],
              flag |-> flag \/ t.added, err |-> NoErr]

(***************************************************************************)
(* plugin.HttpFilters                                                      *)
(***************************************************************************)
\* variant: one staged filter per recorded upstream
httpFiltersPerUpstream(rec) ==
    [i \in 1..Cardinality(DOMAIN rec) |-> [name |-> filterName, stage |-> pluginStage]]

httpFilters(rec) ==
    IF Cardinality(DOMAIN rec) = 0
    THEN << >>
    ELSE << [name |-> filterName, stage |-> pluginStage] >>

(***************************************************************************)
(* Function discovery: inputs                                              *)
(***************************************************************************)
\* cloudfunctions.CloudFunction; Url "" stands for a nil HttpsTrigger
CloudFn(n, st, u) == [Name |-> n, Status |-> st, Url |-> u]
CloudFunctions ==
    { CloudFn("a", statusReady, "urla"), CloudFn("b", statusActive, "urlb"),
      CloudFn("c", "OFFLINE", "urlc"), CloudFn("d", statusReady, "") }

\* the longest function list the provider returns
MaxProviderFunctions == 2

\* what the pages of one list call hold: distinct functions, in any order
ProviderResponses ==
    { r \in UNION { [1..n -> CloudFunctions] : n \in 0..MaxProviderFunctions } :
        \A i, j \in 1..Len(r) : i # j => r[i] # r[j] }

\* the upstream a discovery is created for: a gcloud upstream without
\* functions yet, or an upstream of another type
DiscoveryUpstreams ==
    { [Ref |-> "u1", Type |-> "gcloud",
       Gcloud |-> [Region |-> "us", ProjectId |-> "p1", SecretRef |-> "s1",
                   GfuncFunctions |-> << >>]],
      [Ref |-> "u1", Type |-> "kube", Gcloud |-> NoGcloudSpec] }

\* the secret lists dependencies() returns: the one secret the upstream refers to
DiscoverySecretLists == { l \in SecretLists : "s2" \notin DOMAIN l }

\* the function lists a user writes on the live Upstream
UserFunctionLists == { << >>, << Fn("f1", "g1", "url1"), Fn("f3", "g3", "url3") >> }

\* the regions a user writes on the live Upstream
UserRegions == {"us", "eu"}

\* the live Upstream: missing, without spec, without type, or of some type
StoredStates == {"nil", "nilspec", "niltype", "kube", "gcloud"}
Stored(st, spec) == [State |-> st, Gcloud |-> spec]

\* order of strings under Go's <, for the strings of the model
StringOrder == << "", "a", "b", "c", "d", "f1", "f2", "f3" >>
Rank(str) == CHOOSE i \in 1..Len(StringOrder) : StringOrder[i] = str
strLess(a, b) == Rank(a) < Rank(b)

(***************************************************************************)
(* GcloudGfuncFunctionDiscovery.DetectFunctionsOnce                        *)
(***************************************************************************)
\* the filter of the Pages callback: ready or active, with an https trigger
RECURSIVE eligible(_)
eligible(results) ==
    IF results = << >> THEN << >>
    ELSE LET r == Head(results)
         IN  IF (r.Status = statusReady \/ r.Status = statusActive) /\ r.Url # ""
             THEN << r >> \o eligible(Tail(results))
             ELSE eligible(Tail(results))

\* convertGfuncsToFunctionSpec: LogicalName is left at its zero value
convertGfuncsToFunctionSpec(results) ==
    [i \in 1..Len(results) |->
        [LogicalName |-> "", GfuncFunctionName |-> results[i].Name,
         Url |-> results[i].Url]]

\* variant: an empty access key is rejected, as in ProcessUpstream
discoverySecretErrRejectsEmpty(ak, jk) ==
    IF ak = << >> \/ ~utf8Valid(ak)
    THEN Err("not a valid string", gcloudAccessKey)
    ELSE IF jk # << >> /\ ~utf8Valid(jk)
    THEN Err("not a valid string", gcloudJsonKey)
    ELSE NoErr

\* the field checks of DetectFunctionsOnce: the first bad field returns
discoverySecretErr(ak, jk) ==
    IF ak # << >> /\ ~utf8Valid(ak)
    THEN Err("not a valid string", gcloudAccessKey)
    ELSE IF jk # << >> /\ ~utf8Valid(jk)
    THEN Err("not a valid string", gcloudJsonKey)
    ELSE NoErr

\* newGoogleClient: an empty key is no service-account key; whether another
\* key parses as one is the input keyParses
newGoogleClient(jk, keyParses) ==
    IF jk = << >> \/ ~keyParses
    THEN Err("creating google oauth2 client", "")
    ELSE NoErr

\* variant: the secret is the one seen at construction, not the one of the list
detectFunctionsOnceCachedSecret(in, secretList, keyParses, listOk, response) ==
    LET fail(e) == [functions |-> << >>, err |-> e, called |-> FALSE]
        cerr == newGoogleClient(GoodSecret.JsonKey, keyParses)
    IN  IF in.Type # "gcloud"
        THEN fail(Err("not a gfunc upstream spec", ""))
        ELSE IF cerr # NoErr
        THEN fail(cerr)
        ELSE IF ~listOk
        THEN [functions |-> << >>, called |-> TRUE,
              err |-> Err("unable to get list of GCF functions", "")]
        ELSE [functions |-> convertGfuncsToFunctionSpec(eligible(response)),
              called |-> TRUE, err |-> NoErr]

\* the whole method; listOk and response are what the provider answers
detectFunctionsOnce(in, secretList, keyParses, listOk, response) ==
    LET fail(e) == [functions |-> << >>, err |-> e, called |-> FALSE]
        found == SecretsFind(secretList, in.Gcloud.SecretRef)
        verr == discoverySecretErr(found.secret.AccessKey, found.secret.JsonKey)
        cerr == newGoogleClient(found.secret.JsonKey, keyParses)
    IN  IF in.Type # "gcloud"
        THEN fail(Err("not a gfunc upstream spec", ""))
        ELSE IF found.err # NoErr
        THEN fail(Err("secrets not found for secret ref", in.Gcloud.SecretRef))
        ELSE IF found.secret.Kind # "gcloud"
        THEN fail(Err("provided secret is not an gcloud secret", ""))
        ELSE IF verr # NoErr
        THEN fail(verr)
        ELSE IF cerr # NoErr
        THEN fail(cerr)
        ELSE IF ~listOk
        THEN [functions |-> << >>, called |-> TRUE,
              err |-> Err("unable to get list of GCF functions", "")]
        ELSE [functions |-> convertGfuncsToFunctionSpec(eligible(response)),
              called |-> TRUE, err |-> NoErr]

(***************************************************************************)
(* GcloudGfuncFunctionDiscovery.DetectFunctions: one run of the callback   *)
(***************************************************************************)
\* sort.Slice by LogicalName; for slices this short it is an insertion sort
RECURSIVE insertSorted(_, _)
insertSorted(sorted, x) ==
    IF sorted = << >> THEN << x >>
    ELSE LET l == sorted[Len(sorted)]
         IN  IF strLess(x.LogicalName, l.LogicalName)
             THEN Append(insertSorted(SubSeq(sorted, 1, Len(sorted) - 1), x), l)
             ELSE Append(sorted, x)

RECURSIVE sortSlice(_)
sortSlice(functions) ==
    IF functions = << >> THEN << >>
    ELSE insertSorted(sortSlice(SubSeq(functions, 1, Len(functions) - 1)),
                      functions[Len(functions)])

\* variant: the closure does not check the type and writes the spec it was
\* created with
mutatorNoTypeCheck(out, newfunctions) ==
    IF out.State = "nil"
    THEN [out |-> out, err |-> Err("nil upstream", "")]
    ELSE IF out.State = "nilspec"
    THEN [out |-> out, err |-> Err("nil upstream spec", "")]
    ELSE IF out.State = "niltype"
    THEN [out |-> out, err |-> Err("nil upstream type", "")]
    ELSE [out |-> Stored("gcloud", [fUpstream.Gcloud EXCEPT !.GfuncFunctions = newfunctions]),
          err |-> NoErr]

\* the closure handed to updatecb
mutator(out, newfunctions) ==
    IF out.State = "nil"
    THEN [out |-> out, err |-> Err("nil upstream", "")]
    ELSE IF out.State = "nilspec"
    THEN [out |-> out, err |-> Err("nil upstream spec", "")]
    ELSE IF out.State = "niltype"
    THEN [out |-> out, err |-> Err("nil upstream type", "")]
    ELSE IF out.State # "gcloud"
    THEN [out |-> out, err |-> Err("not gcloud upstream", "")]
    ELSE [out |-> [out EXCEPT !.Gcloud.GfuncFunctions = newfunctions], err |-> NoErr]

\* updatecb: reads the live Upstream, applies the closure to it and writes
\* the result; an error of the closure aborts the mutation, and a write that
\* meets a concurrent change reports a conflict and writes nothing
updatecb(live, newfunctions, conflict) ==
    LET m == mutator(live, newfunctions)
    IN  IF m.err # NoErr
        THEN [stored |-> live, err |-> m.err]
        ELSE IF conflict
        THEN [stored |-> live, err |-> Err("conflict", "")]
        ELSE [stored |-> m.out, err |-> NoErr]

\* variant: the closure is applied to the upstream captured at construction
backoffCallbackWritesCaptured(in, live, secretList, keyParses, listOk, response, conflict) ==
    LET once == detectFunctionsOnce(in, secretList, keyParses, listOk, response)
        newfunctions == sortSlice(once.functions)
        u == updatecb(IF live.State = "gcloud" THEN Stored(in.Type, in.Gcloud) ELSE live,
                      newfunctions, conflict)
    IN  IF once.err # NoErr
        THEN [stored |-> live, err |-> once.err, called |-> once.called,
              updated |-> FALSE, written |-> << >>]
        ELSE IF u.err # NoErr
        THEN [stored |-> live, called |-> TRUE, updated |-> TRUE,
              written |-> << >>,
              err |-> Err("unable to update upstream", u.err[1].msg)]
        ELSE [stored |-> u.stored, err |-> NoErr, called |-> TRUE,
              updated |-> TRUE, written |-> newfunctions]

\* the callback passed to Backoff
backoffCallback(in, live, secretList, keyParses, listOk, response, conflict) ==
    LET once == detectFunctionsOnce(in, secretList, keyParses, listOk, response)
        newfunctions == sortSlice(once.functions)
        u == updatecb(live, newfunctions, conflict)
    IN  IF once.err # NoErr
        THEN [stored |-> live, err |-> once.err, called |-> once.called,
              updated |-> FALSE, written |-> << >>]
        ELSE IF u.err # NoErr
        THEN [stored |-> u.stored, called |-> TRUE, updated |-> TRUE,
              written |-> << >>,
              err |-> Err("unable to update upstream", u.err[1].msg)]
        ELSE [stored |-> u.stored, err |-> NoErr, called |-> TRUE,
              updated |-> TRUE, written |-> newfunctions]

Attempt(response, r) ==
    [ran |-> TRUE, response |-> response, err |-> r.err,
     called |-> r.called, updated |-> r.updated, written |-> r.written]
NoAttempt ==
    [ran |-> FALSE, response |-> << >>,
     err |-> NoErr, called |-> FALSE, updated |-> FALSE, written |-> << >>]

DiscoveryIdle ==
    /\ fUpstream = NoUpstream
    /\ stored = Stored("nil", NoGcloudSpec)
    /\ depSecrets = [x \in {} |-> OtherSecret]
    /\ pc = "idle"
    /\ cancelled = FALSE
    /\ ret = NoErr
    /\ attempt = NoAttempt

(***************************************************************************)
(* Actions of the translation plugin                                       *)
(***************************************************************************)
\* NewPlugin: no map yet, the caller's flag is false
NewPlugin ==
    /\ recordedUpstreams = EmptyMap
    /\ initialized = FALSE
    /\ transformsAdded = FALSE
    /\ secrets = [r \in {} |-> OtherSecret]
    /\ pass = EmptyPass
    /\ prev = {}
    /\ last = NoCall

Init == NewPlugin /\ DiscoveryIdle

\* variant: Init keeps the map of the previous pass
PluginInitKeepsMap ==
    \E s \in SecretLists :
        /\ secrets' = s
        /\ recordedUpstreams' = recordedUpstreams
        /\ initialized' = TRUE
        /\ pass' = EmptyPass
        /\ prev' = DOMAIN recordedUpstreams
        /\ last' = [NoCall EXCEPT !.op = "Init"]
        /\ UNCHANGED << transformsAdded, dvars >>

\* plugin.Init, called by the translator at the start of a pass over a new Snapshot
PluginInit ==
    \E s \in SecretLists :
        /\ secrets' = s
        /\ recordedUpstreams' = EmptyMap
        /\ initialized' = TRUE
        /\ pass' = EmptyPass
        /\ prev' = DOMAIN recordedUpstreams
        /\ last' = [NoCall EXCEPT !.op = "Init"]
        /\ UNCHANGED << transformsAdded, dvars >>

\* plugin.ProcessUpstream; the translator hands each Backend of the Snapshot
\* once per pass, and Refs are unique within a Snapshot
ProcessUpstream ==
    \E in \in UpstreamInputs, out \in ClusterInputs :
        /\ initialized
        /\ in.Ref \notin DOMAIN pass
        /\ LET r == processUpstream(recordedUpstreams, secrets, in, out)
           IN  /\ recordedUpstreams' = r.rec
               /\ pass' = [x \in DOMAIN pass \cup {in.Ref} |->
                              IF x = in.Ref THEN [in |-> in, err |-> r.err] ELSE pass[x]]
               /\ last' = Call("ProcessUpstream", in, NoRoute, out, r.out,
                               BlankPerFilter, << >>, r.err)
        /\ UNCHANGED << initialized, transformsAdded, secrets, prev, dvars >>

\* plugin.ProcessRoute
ProcessRoute ==
    \E in \in RouteInputs :
        LET r == processRoute(recordedUpstreams, transformsAdded, in, BlankPerFilter)
        IN  /\ transformsAdded' = r.flag
            /\ last' = Call("ProcessRoute", NoUpstream, in, BlankCluster, BlankCluster,
                            r.perFilter, << >>, r.err)
            /\ UNCHANGED << recordedUpstreams, initialized, secrets, pass, prev, dvars >>

\* plugin.HttpFilters
HttpFilters ==
    /\ last' = Call("HttpFilters", NoUpstream, NoRoute, BlankCluster, BlankCluster,
                    BlankPerFilter, httpFilters(recordedUpstreams), NoErr)
    /\ UNCHANGED << recordedUpstreams, initialized, transformsAdded, secrets, pass, prev, dvars >>

TranslationNext == PluginInit \/ ProcessUpstream \/ ProcessRoute \/ HttpFilters

TranslationSpec == Init /\ [][TranslationNext]_vars

(***************************************************************************)
(* Actions of the function discovery                                       *)
(***************************************************************************)
ctxErr == Err("context canceled", "")
Running == pc \in {"poll", "backoff", "sleep"}

\* NewFunctionDiscovery(u) followed by the call of DetectFunctions
DiscoveryInit ==
    /\ NewPlugin
    /\ fUpstream \in DiscoveryUpstreams
    /\ stored = Stored(fUpstream.Type, fUpstream.Gcloud)
    /\ depSecrets \in DiscoverySecretLists
    /\ pc = "poll"
    /\ cancelled = FALSE
    /\ ret = NoErr
    /\ attempt = NoAttempt

\* what the outside world answers to one run of the callback: whether the
\* JSON key parses, whether the list call succeeds and with which functions,
\* whether the storage reports a conflict
PollAnswers ==
    [keyParses : {FALSE}, listOk : {FALSE}, conflict : {FALSE}, response : {<< >>}]
    \cup [keyParses : {TRUE}, listOk : {FALSE}, conflict : {FALSE}, response : {<< >>}]
    \cup [keyParses : {TRUE}, listOk : {TRUE}, conflict : BOOLEAN,
          response : ProviderResponses]

\* variant: a run that fails before updatecb clears the stored function list
PollClearsOnFailure ==
    \E a \in PollAnswers :
        /\ pc = "poll"
        /\ cancelled => ~a.listOk
        /\ LET r == backoffCallback(fUpstream, stored, depSecrets, a.keyParses,
                                    a.listOk, a.response, a.conflict)
           IN  /\ stored' = IF r.err # NoErr /\ ~r.updated /\ stored.State = "gcloud"
                            THEN [stored EXCEPT !.Gcloud.GfuncFunctions = << >>]
                            ELSE r.stored
               /\ attempt' = Attempt(IF r.err = NoErr THEN a.response ELSE << >>, r)
               /\ pc' = IF r.err = NoErr THEN "sleep" ELSE "backoff"
        /\ UNCHANGED << tvars, fUpstream, depSecrets, cancelled, ret >>

\* one run of the callback inside Backoff; a list call on a cancelled
\* context fails
Poll ==
    \E a \in PollAnswers :
        /\ pc = "poll"
        /\ cancelled => ~a.listOk
        /\ LET r == backoffCallback(fUpstream, stored, depSecrets, a.keyParses,
                                    a.listOk, a.response, a.conflict)
           IN  /\ stored' = r.stored
               /\ attempt' = Attempt(IF r.err = NoErr THEN a.response ELSE << >>, r)
               /\ pc' = IF r.err = NoErr THEN "sleep" ELSE "backoff"
        /\ UNCHANGED << tvars, fUpstream, depSecrets, cancelled, ret >>

\* Backoff waits and runs the callback again
BackoffRetry ==
    /\ pc = "backoff"
    /\ ~cancelled
    /\ pc' = "poll"
    /\ UNCHANGED << tvars, fUpstream, stored, depSecrets, cancelled, ret, attempt >>

\* variant: DetectFunctions returns the error Backoff gave up with
BackoffExhaustedReturns ==
    /\ pc = "backoff"
    /\ ~cancelled
    /\ pc' = "returned"
    /\ ret' = attempt.err
    /\ UNCHANGED << tvars, fUpstream, stored, depSecrets, cancelled, attempt >>

\* Backoff gives up and returns the error; the loop ignores it and sleeps
BackoffExhausted ==
    /\ pc = "backoff"
    /\ ~cancelled
    /\ pc' = "sleep"
    /\ UNCHANGED << tvars, fUpstream, stored, depSecrets, cancelled, ret, attempt >>

\* variant: on a cancelled context DetectFunctions returns the error of Backoff
BackoffCancelledReturnsErr ==
    /\ pc = "backoff"
    /\ cancelled
    /\ pc' = "returned"
    /\ ret' = attempt.err
    /\ UNCHANGED << tvars, fUpstream, stored, depSecrets, cancelled, attempt >>

\* Backoff returns on the cancelled context; DetectFunctions returns ctx.Err()
BackoffCancelled ==
    /\ pc = "backoff"
    /\ cancelled
    /\ pc' = "returned"
    /\ ret' = ctxErr
    /\ UNCHANGED << tvars, fUpstream, stored, depSecrets, cancelled, attempt >>

\* contextutils.Sleep ran to the end of timetowait
SleepDone ==
    /\ pc = "sleep"
    /\ ~cancelled
    /\ pc' = "poll"
    /\ UNCHANGED << tvars, fUpstream, stored, depSecrets, cancelled, ret, attempt >>

\* variant: the error of contextutils.Sleep is dropped and the loop goes on
SleepIgnoresCancel ==
    /\ pc = "sleep"
    /\ cancelled
    /\ pc' = "poll"
    /\ UNCHANGED << tvars, fUpstream, stored, depSecrets, cancelled, ret, attempt >>

\* contextutils.Sleep returned on the cancelled context
SleepCancelled ==
    /\ pc = "sleep"
    /\ cancelled
    /\ pc' = "returned"
    /\ ret' = ctxErr
    /\ UNCHANGED << tvars, fUpstream, stored, depSecrets, cancelled, attempt >>

\* the owner of the discovery cancels ctx
Cancel ==
    /\ Running
    /\ ~cancelled
    /\ cancelled' = TRUE
    /\ UNCHANGED << tvars, fUpstream, stored, depSecrets, pc, ret, attempt >>

\* the secrets behind dependencies() change
RotateSecrets ==
    \E s \in DiscoverySecretLists :
        /\ Running
        /\ s # depSecrets
        /\ depSecrets' = s
        /\ UNCHANGED << tvars, fUpstream, stored, pc, cancelled, ret, attempt >>

\* a user edits, retypes or deletes the live Upstream; the list call does
\* not read the live Upstream, so an edit between the list call and updatecb
\* is an edit before the run of the callback
EditUpstream ==
    \E st \in StoredStates, fl \in UserFunctionLists, rg \in UserRegions :
        /\ Running
        /\ st # "gcloud" => (fl = << >> /\ rg = "us")
        /\ stored' = Stored(st, IF st = "gcloud"
                                THEN [Region |-> rg, ProjectId |-> "p1",
                                      SecretRef |-> "s1", GfuncFunctions |-> fl]
                                ELSE NoGcloudSpec)
        /\ stored' # stored
        /\ UNCHANGED << tvars, fUpstream, depSecrets, pc, cancelled, ret, attempt >>

DiscoveryNext ==
    \/ Poll
    \/ BackoffRetry
    \/ BackoffExhausted
    \/ BackoffCancelled
    \/ SleepDone
    \/ SleepCancelled
    \/ Cancel
    \/ RotateSecrets
    \/ EditUpstream

DiscoverySpec == DiscoveryInit /\ [][DiscoveryNext]_vars

\* the goroutine of DetectFunctions keeps running: a call of the callback
\* returns, the timers of Backoff and of contextutils.Sleep fire, and a
\* cancelled context wakes both
DiscoveryFairness ==
    /\ WF_vars(Poll)
    /\ WF_vars(BackoffRetry \/ BackoffExhausted)
    /\ WF_vars(BackoffCancelled)
    /\ WF_vars(SleepDone)
    /\ WF_vars(SleepCancelled)

\* the loop of DetectFunctions on its own: the secrets stay as they are and
\* there is no other writer of the live Upstream
LoopNext ==
    \/ Poll
    \/ BackoffRetry
    \/ BackoffExhausted
    \/ BackoffCancelled
    \/ SleepDone
    \/ SleepCancelled
    \/ Cancel

\* the secret lists the loop is run with: the secret is missing or well-formed
LoopSecretLists ==
    { l \in DiscoverySecretLists : "s1" \in DOMAIN l => l["s1"] = GoodSecret }

LoopInit == DiscoveryInit /\ depSecrets \in LoopSecretLists

DiscoveryFairSpec == LoopInit /\ [][LoopNext]_vars /\ DiscoveryFairness

(***************************************************************************)
(* The plugin and the discovery are separate objects that share no state:  *)
(* a behaviour of the whole follows the plugin or one discovery.           *)
(***************************************************************************)
Next ==
    \/ pc = "idle" /\ TranslationNext
    \/ pc # "idle" /\ DiscoveryNext

Spec == (Init \/ DiscoveryInit) /\ [][Next]_vars

(***************************************************************************)
(* Properties                                                              *)
(***************************************************************************)
\* the refs handed to ProcessUpstream as gcloud upstreams since the last Init
GcloudInPass == { r \in DOMAIN pass : pass[r].in.Type = "gcloud" }

\* a step of ProcessUpstream: the only step that adds a ref to the pass
ProcessUpstreamStep == DOMAIN pass' # DOMAIN pass /\ DOMAIN pass' # {}

\* a step of ProcessRoute
ProcessRouteStep == pc = "idle" /\ last'.op = "ProcessRoute"

\* a run of the Backoff callback: the only step that leaves "poll"
PollStep == pc = "poll" /\ pc' # "poll"

\* some function of the list has that logical name, and cfg is its id and URL
SomeMatch(fs, name, cfg) ==
    \E i \in 1..Len(fs) :
        fs[i].LogicalName = name /\ cfg = << fs[i].GfuncFunctionName, fs[i].Url >>
HasName(fs, name) == \E i \in 1..Len(fs) : fs[i].LogicalName = name

\* C1: ProcessUpstream on an upstream that is not a gcloud upstream returns
\* no error, leaves the output cluster as it was handed in and leaves the
\* recorded-upstream map as it was, whatever the secrets of the Snapshot.
C1_NotOursIsNoOp ==
    [][ (ProcessUpstreamStep /\ last'.upstream.Type # "gcloud")
        => /\ last'.err = NoErr
           /\ last'.cluster = last'.outBefore
           /\ recordedUpstreams' = recordedUpstreams ]_vars

C1_Witness ==
    /\ last.op = "ProcessUpstream"
    /\ last.upstream.Type = "kube"
    /\ DOMAIN secrets = SecretRefs
    /\ DOMAIN recordedUpstreams # {}

\* C2: when, in one pass, ProcessUpstream failed for a gcloud upstream B and
\* succeeded for a gcloud upstream C (in either order), C is still recorded
\* with the spec it was handed in with, and ProcessRoute for a route to C that
\* names a function of C's list returns no error and that function's config.
C2_FailureIsolated ==
    \A B \in GcloudInPass, C \in GcloudInPass :
        (pass[B].err # NoErr /\ pass[C].err = NoErr)
        => /\ C \in DOMAIN recordedUpstreams
           /\ recordedUpstreams[C] = pass[C].in.Gcloud
           /\ ( /\ last.op = "ProcessRoute"
                /\ last.route.DestinationSpec = "gcloud"
                /\ last.route.Upstream = C
                /\ HasName(pass[C].in.Gcloud.GfuncFunctions, last.route.LogicalName) )
              => /\ last.err = NoErr
                 /\ SomeMatch(pass[C].in.Gcloud.GfuncFunctions,
                              last.route.LogicalName, last.perFilter.gcloud)

C2_Witness ==
    \E B \in GcloudInPass, C \in GcloudInPass :
        /\ Len(pass[B].err) = 2
        /\ pass[C].err = NoErr
        /\ last.op = "ProcessRoute"
        /\ last.route.DestinationSpec = "gcloud"
        /\ last.route.Upstream = C
        /\ last.err = NoErr
        /\ last.perFilter.gcloud # NoConfig

\* C3: ProcessRoute for a gcloud route to a recorded upstream resolves the
\* logical name by exact match in the recorded function list: with a match the
\* route gets the id and URL of a function of that name and no error; without
\* one the error names the logical name and the route gets no per-filter config.
C3_FunctionResolution ==
    ( /\ last.op = "ProcessRoute"
      /\ last.route.DestinationSpec = "gcloud"
      /\ last.route.Upstream \in DOMAIN recordedUpstreams )
    => LET fs == recordedUpstreams[last.route.Upstream].GfuncFunctions
           name == last.route.LogicalName
       IN  IF HasName(fs, name)
           THEN /\ last.err = NoErr
                /\ SomeMatch(fs, name, last.perFilter.gcloud)
           ELSE /\ last.err # NoErr
                /\ ErrNames(last.err, name)
                /\ last.perFilter = BlankPerFilter

C3_Witness ==
    /\ last.op = "ProcessRoute"
    /\ last.route.DestinationSpec = "gcloud"
    /\ last.route.Upstream \in DOMAIN recordedUpstreams
    /\ last.route.LogicalName = "f2"
    /\ recordedUpstreams[last.route.Upstream].GfuncFunctions
         = << Fn("f1", "g1", "url1"), Fn("f3", "g3", "url3") >>
    /\ last.err = Err("unknown function", "f2")

\* C4: the recorded-upstream map holds exactly the gcloud upstreams handed to
\* ProcessUpstream since the last Init and is empty right after Init; a ref
\* recorded when the pass began but not handed in as a gcloud upstream in this
\* pass makes a gcloud route to it fail as not a gcloud upstream, and does not
\* make HttpFilters return the filter.
C4_NoStateAcrossPasses ==
    /\ DOMAIN recordedUpstreams = GcloudInPass
    /\ last.op = "Init" => DOMAIN recordedUpstreams = {}
    /\ \A r \in prev \ GcloudInPass :
          ( /\ last.op = "ProcessRoute"
            /\ last.route.DestinationSpec = "gcloud"
            /\ last.route.Upstream = r )
          => last.err = Err("is not an GCLOUD upstream", r)
    /\ (last.op = "HttpFilters" /\ GcloudInPass = {}) => last.filters = << >>

C4_Witness ==
    \E r \in prev \ GcloudInPass :
        /\ r \in DOMAIN pass
        /\ last.op = "ProcessRoute"
        /\ last.route.DestinationSpec = "gcloud"
        /\ last.route.Upstream = r
        /\ last.err # NoErr

\* C5: HttpFilters returns no error and exactly the one gcloud filter at its
\* stage when some gcloud upstream was handed to ProcessUpstream since the last
\* Init, and no filter when none was; never more than one filter.
C5_AtMostOneFilter ==
    last.op = "HttpFilters"
    => /\ last.err = NoErr
       /\ Len(last.filters) <= 1
       /\ GcloudInPass # {}
            => last.filters = << [name |-> filterName, stage |-> pluginStage] >>
       /\ GcloudInPass = {} => last.filters = << >>

C5_Witness ==
    /\ last.op = "HttpFilters"
    /\ GcloudInPass = Refs
    /\ Len(last.filters) = 1

\* a credential field the spec calls bad: empty, or not valid UTF-8 text
BadField(k) == k = << >> \/ ~utf8Valid(k)

\* the field checks of ProcessUpstream on a gcloud secret that was found
C6_Translation ==
    ( /\ ProcessUpstreamStep
      /\ last'.upstream.Type = "gcloud"
      /\ last'.upstream.Gcloud.SecretRef \in DOMAIN secrets
      /\ secrets[last'.upstream.Gcloud.SecretRef].Kind = "gcloud" )
    => LET sec == secrets[last'.upstream.Gcloud.SecretRef]
       IN  /\ ErrNames(last'.err, "access_key") <=> BadField(sec.AccessKey)
           /\ ErrNames(last'.err, "json_key") <=> BadField(sec.JsonKey)

\* the field checks of DetectFunctionsOnce on a gcloud secret that was found
C6_Discovery ==
    ( /\ PollStep
      /\ fUpstream.Type = "gcloud"
      /\ fUpstream.Gcloud.SecretRef \in DOMAIN depSecrets
      /\ depSecrets[fUpstream.Gcloud.SecretRef].Kind = "gcloud" )
    => LET sec == depSecrets[fUpstream.Gcloud.SecretRef]
       IN  /\ ErrNames(attempt'.err, "access_key") <=> BadField(sec.AccessKey)
           /\ ErrNames(attempt'.err, "json_key") <=> BadField(sec.JsonKey)

\* C6: every validation of the fields of a gcloud secret, in ProcessUpstream
\* and in DetectFunctionsOnce, returns an error that names access_key exactly
\* when the access key is empty or not valid UTF-8 and names json_key exactly
\* when the JSON key is empty or not valid UTF-8: both when both are bad, one
\* when one is, none when none is.
C6_ValidationAggregates == [][ C6_Translation /\ C6_Discovery ]_vars

\* the half of C6 that the code meets: ProcessUpstream appends every bad field
C6_TranslationAggregates == [][ C6_Translation ]_vars

\* C7: for a gcloud upstream whose SecretRef names no secret the error is the
\* lookup error, and for one whose secret is of another kind it is the
\* wrong-kind error; in both cases ProcessUpstream sets no protocol-extension
\* options on the cluster, and the discovery calls neither the provider nor
\* the mutation callback and leaves the stored upstream alone.
C7_SecretResolution ==
    [][ /\ ( ProcessUpstreamStep /\ last'.upstream.Type = "gcloud" )
           => LET ref == last'.upstream.Gcloud.SecretRef
                  unset == last'.cluster.ExtensionProtocolOptions
                             = last'.outBefore.ExtensionProtocolOptions
              IN  /\ ref \notin DOMAIN secrets
                     => /\ last'.err = Err("retrieving gcloud secret", ref)
                        /\ unset
                  /\ (ref \in DOMAIN secrets /\ secrets[ref].Kind # "gcloud")
                     => /\ last'.err = Err("secret is not an GCLOUD secret", ref)
                        /\ unset
        /\ ( PollStep /\ fUpstream.Type = "gcloud" )
           => LET ref == fUpstream.Gcloud.SecretRef
                  unused == ~attempt'.called /\ ~attempt'.updated /\ stored' = stored
              IN  /\ ref \notin DOMAIN depSecrets
                     => /\ attempt'.err = Err("secrets not found for secret ref", ref)
                        /\ unused
                  /\ (ref \in DOMAIN depSecrets /\ depSecrets[ref].Kind # "gcloud")
                     => /\ attempt'.err = Err("provided secret is not an gcloud secret", "")
                        /\ unused ]_vars

C7_Witness ==
    /\ last.op = "ProcessUpstream"
    /\ last.upstream.Type = "gcloud"
    /\ last.upstream.Gcloud.SecretRef \in DOMAIN secrets
    /\ secrets[last.upstream.Gcloud.SecretRef].Kind # "gcloud"
    /\ last.err # NoErr
    /\ last.cluster.Sni # << >>
    /\ last.cluster.ExtensionProtocolOptions = << >>

\* C8: ProcessRoute for a gcloud route to a ref that is not recorded fails
\* with an error naming the ref; for a route without DestinationSpec, without
\* upstream destination, or with another provider's DestinationSpec it returns
\* no error and does nothing: no per-filter config and the transforms flag as
\* it was.
C8_RouteDispatch ==
    [][ ProcessRouteStep
        => /\ ( /\ last'.route.DestinationSpec = "gcloud"
                /\ last'.route.Upstream \in Refs
                /\ last'.route.Upstream \notin DOMAIN recordedUpstreams )
              => /\ last'.err # NoErr
                 /\ ErrNames(last'.err, last'.route.Upstream)
           /\ ( \/ last'.route.DestinationSpec # "gcloud"
                \/ last'.route.Upstream = NoRef )
              => /\ last'.err = NoErr
                 /\ last'.perFilter = BlankPerFilter
                 /\ transformsAdded' = transformsAdded ]_vars

\* the functions of a provider response, whatever their order
FunctionSet(response) == { response[i] : i \in 1..Len(response) }

\* the list is in ascending order of LogicalName
SortedByLogicalName(fs) ==
    \A i \in 1..Len(fs), j \in 1..Len(fs) :
        i < j => ~strLess(fs[j].LogicalName, fs[i].LogicalName)

\* C9: a successful write-back stores the functions ordered by logicalName,
\* so a successful poll that sees the same provider functions as the
\* successful poll before it, in whatever order, writes the same list.
C9_SortedWriteBack ==
    [][ (PollStep /\ attempt'.err = NoErr)
        => /\ SortedByLogicalName(attempt'.written)
           /\ stored'.Gcloud.GfuncFunctions = attempt'.written
           /\ ( /\ attempt.ran
                /\ attempt.err = NoErr
                /\ FunctionSet(attempt.response) = FunctionSet(attempt'.response) )
              => attempt'.written = attempt.written ]_vars

\* C10: after a successful write-back of two or more functions the
\* logicalName values of the written list are pairwise distinct.
C10_UniqueLogicalNames ==
    ( attempt.ran /\ attempt.err = NoErr /\ Len(attempt.written) >= 2 )
    => \A i \in 1..Len(attempt.written), j \in 1..Len(attempt.written) :
          i # j => attempt.written[i].LogicalName # attempt.written[j].LogicalName

(***************************************************************************)
(* The loop of DetectFunctions                                             *)
(***************************************************************************)
\* the last run of the callback reached updatecb and updatecb failed
UpdateFailed ==
    attempt.ran /\ attempt.updated /\ attempt.err # NoErr

\* the last run of the callback wrote the function list
Persisted ==
    attempt.ran /\ attempt.updated /\ attempt.err = NoErr

\* from some point on every run of the callback succeeds
LaterCallsSucceed == <>[][PollStep => attempt'.err = NoErr]_vars

\* C11: when updatecb fails (a conflict, say) and later calls succeed and
\* ctx is never cancelled, DetectFunctions does not return: the callback
\* runs again and the function list is written; the error of a run of the
\* callback is never what DetectFunctions returns.
C11_RetryUntilPersisted ==
    /\ [](pc = "returned" => cancelled)
    /\ [](ret \in {NoErr, ctxErr})
    /\ ([](~cancelled) /\ LaterCallsSucceed) => (UpdateFailed ~> Persisted)

C11_Witness ==
    /\ pc = "backoff"
    /\ ~cancelled
    /\ attempt.updated
    /\ attempt.err = Err("unable to update upstream", "conflict")
    /\ stored.State = "gcloud"


\* C12: when ctx is cancelled while DetectFunctions is in the sleep between
\* two polls, its next step is to return the cancellation error: there is no
\* run of the callback (no list call, no updatecb) between the cancellation
\* and the return, and the return comes.
C12_CancelledSleepReturns ==
    /\ [][(pc = "sleep" /\ cancelled)
            => /\ pc' \in {"sleep", "returned"}
               /\ pc' = "returned" => ret' = ctxErr
               /\ attempt' = attempt
               /\ stored' = stored]_vars
    /\ (pc = "sleep" /\ cancelled) ~> (pc = "returned" /\ ret = ctxErr)

\* DetectFunctions returned from the sleep that followed a successful run
C12_Witness ==
    /\ pc = "returned"
    /\ ret = ctxErr
    /\ cancelled
    /\ attempt.ran
    /\ attempt.err = NoErr

\* C13: DetectFunctions ends on cancellation only: it returns only after ctx
\* is cancelled and what it returns is the cancellation error, never the
\* error of a list call, of a secret or of updatecb; while ctx is live every
\* run of the callback, failed or not, is followed by another.
C13_OnlyCancellationEnds ==
    /\ [](pc = "returned" => (cancelled /\ ret = ctxErr))
    /\ [](pc # "returned" => ret = NoErr)
    /\ [](~cancelled) => []<><<PollStep>>_vars

\* DetectFunctions returned out of Backoff after a failed run of the callback
C13_Witness ==
    /\ pc = "returned"
    /\ ret = ctxErr
    /\ attempt.ran
    /\ attempt.err # NoErr
    /\ attempt.err # ctxErr

(***************************************************************************)
(* The write-back                                                          *)
(***************************************************************************)
\* a run of the callback that reached updatecb
UpdateStep == PollStep /\ attempt'.updated

\* what the closure answers for a live Upstream it refuses
MutatorRefusal(state) ==
    CASE state = "nil"     -> "nil upstream"
      [] state = "nilspec" -> "nil upstream spec"
      [] state = "niltype" -> "nil upstream type"
      [] OTHER             -> "not gcloud upstream"

\* C14: the closure handed to updatecb checks the live Upstream again: when
\* it is nil, has no spec, has no type or is of another type, the closure
\* returns an error, the Upstream stays as it was and only this run fails
\* (the loop goes on); otherwise a run that succeeds has replaced the
\* function list by the new one and changed no other field.
C14_MutatorRevalidates ==
    [][UpdateStep =>
        IF stored.State # "gcloud"
        THEN /\ attempt'.err = Err("unable to update upstream",
                                   MutatorRefusal(stored.State))
             /\ stored' = stored
             /\ pc' = "backoff"
             /\ ret' = NoErr
        ELSE attempt'.err = NoErr =>
                 /\ stored'.State = "gcloud"
                 /\ stored'.Gcloud.GfuncFunctions = attempt'.written
                 /\ stored' = [stored EXCEPT !.Gcloud.GfuncFunctions = attempt'.written]]_vars

\* the live Upstream was retyped under the discovery and the closure refused it
C14_Witness ==
    /\ stored.State = "kube"
    /\ fUpstream.Type = "gcloud"
    /\ pc = "backoff"
    /\ attempt.updated
    /\ attempt.err = Err("unable to update upstream", "not gcloud upstream")

\* the fields of the live Upstream that the discovery does not discover
OtherFields(u) ==
    << u.State, u.Gcloud.Region, u.Gcloud.ProjectId, u.Gcloud.SecretRef >>

\* C15: however a run of the callback interleaves with another writer of the
\* same Upstream, the write-back does not clobber that writer: after it the
\* stored Upstream has the other writer's latest values in every field but
\* the function list, and a write that updatecb reports as conflicting is
\* not applied and fails only this run, which is retried.
C15_NoSilentClobber ==
    [][UpdateStep =>
        /\ OtherFields(stored') = OtherFields(stored)
        /\ attempt'.err = Err("unable to update upstream", "conflict")
              => (stored' = stored /\ pc' = "backoff" /\ ret' = NoErr)
        /\ stored' # stored
              => (attempt'.err = NoErr /\ pc' = "sleep"
                  /\ stored'.Gcloud.GfuncFunctions = attempt'.written)]_vars

\* a user's edit of the region is still there after the discovery wrote the
\* functions it found
C15_Witness ==
    /\ pc = "sleep"
    /\ attempt.updated
    /\ attempt.err = NoErr
    /\ attempt.written # << >>
    /\ stored.State = "gcloud"
    /\ stored.Gcloud.Region = "eu"
    /\ stored.Gcloud.GfuncFunctions = attempt.written

(***************************************************************************)
(* The secret of a run of the callback                                     *)
(***************************************************************************)
\* the list holds functions that a run of the callback wrote
HasDiscovered(fs) == \E i \in 1..Len(fs) : fs[i].LogicalName = ""

\* C16: every run of the callback, a retry after a failure included, asks
\* dependencies() again and works with the secret it returns then: when the
\* secret of the upstream is rotated or removed between two runs, the later
\* run validates and uses the new one, or fails because it is gone, whatever
\* an earlier run saw.
C16_SecretFetchedEachRun ==
    [][(PollStep /\ fUpstream.Type = "gcloud") =>
        LET ref == fUpstream.Gcloud.SecretRef
            now == depSecrets[ref]
        IN  IF ref \notin DOMAIN depSecrets
            THEN /\ attempt'.err = Err("secrets not found for secret ref", ref)
                 /\ ~attempt'.called
            ELSE IF now.Kind # "gcloud"
            THEN /\ attempt'.err = Err("provided secret is not an gcloud secret", "")
                 /\ ~attempt'.called
            ELSE IF now.AccessKey # << >> /\ ~utf8Valid(now.AccessKey)
            THEN /\ attempt'.err = Err("not a valid string", gcloudAccessKey)
                 /\ ~attempt'.called
            ELSE IF now.JsonKey # << >> /\ ~utf8Valid(now.JsonKey)
            THEN /\ attempt'.err = Err("not a valid string", gcloudJsonKey)
                 /\ ~attempt'.called
            ELSE IF now.JsonKey = << >>
            THEN /\ attempt'.err = Err("creating google oauth2 client", "")
                 /\ ~attempt'.called
            ELSE attempt'.err \notin
                    { Err("secrets not found for secret ref", ref),
                      Err("provided secret is not an gcloud secret", ""),
                      Err("not a valid string", gcloudAccessKey),
                      Err("not a valid string", gcloudJsonKey) }]_vars

\* a run of the callback found the secret gone that an earlier run, which
\* wrote its functions, had used
C16_Witness ==
    /\ pc = "backoff"
    /\ fUpstream.Type = "gcloud"
    /\ fUpstream.Gcloud.SecretRef \notin DOMAIN depSecrets
    /\ attempt.err = Err("secrets not found for secret ref", fUpstream.Gcloud.SecretRef)
    /\ stored.State = "gcloud"
    /\ HasDiscovered(stored.Gcloud.GfuncFunctions)

(***************************************************************************)
(* Passes of the plugin                                                    *)
(***************************************************************************)
\* the map a new plugin holds after the calls of ProcessUpstream of this pass
PassMap == [r \in GcloudInPass |-> pass[r].in.Gcloud]

\* C17: translation is deterministic and free of history: a pass over a
\* Snapshot gives the same cluster patches, route patches, filters, errors
\* and 'transforms added' result at any point of the plugin's life, that is,
\* what a new plugin gives: each result is the one computed from the calls
\* of this pass alone, and a pass begins with 'transforms added' false.
C17_HistoryFree ==
    /\ recordedUpstreams = PassMap
    /\ last.op = "Init" => ~transformsAdded
    /\ last.op = "ProcessUpstream" =>
          LET r == processUpstream(EmptyMap, secrets, last.upstream, last.outBefore)
          IN  last.cluster = r.out /\ last.err = r.err
    /\ last.op = "ProcessRoute" =>
          LET r == processRoute(PassMap, FALSE, last.route, BlankPerFilter)
          IN  last.perFilter = r.perFilter /\ last.err = r.err
    /\ last.op = "HttpFilters" => last.filters = httpFilters(PassMap)

(***************************************************************************)
(* The two validations of a secret                                         *)
(***************************************************************************)
\* the errors with which the discovery rejects a secret it has found
DiscoveryRejections ==
    { Err("provided secret is not an gcloud secret", ""),
      Err("not a valid string", gcloudAccessKey),
      Err("not a valid string", gcloudJsonKey) }

\* C18: an empty access key passes the validation of DetectFunctionsOnce,
\* which rejects an access key only when it is non-empty and not valid
\* UTF-8, and fails the validation of ProcessUpstream; so a secret that
\* passes the validation of ProcessUpstream is never rejected by the
\* validation of DetectFunctionsOnce.
C18_EmptyAccessKey ==
    /\ [][(PollStep /\ fUpstream.Type = "gcloud"
              /\ fUpstream.Gcloud.SecretRef \in DOMAIN depSecrets
              /\ depSecrets[fUpstream.Gcloud.SecretRef].Kind = "gcloud") =>
            LET now == depSecrets[fUpstream.Gcloud.SecretRef]
            IN  /\ attempt'.err = Err("not a valid string", gcloudAccessKey)
                     <=> (now.AccessKey # << >> /\ ~utf8Valid(now.AccessKey))
                /\ upstreamSecretErrs(now.AccessKey, now.JsonKey) = NoErr
                     => attempt'.err \notin DiscoveryRejections]_vars
    /\ [][ProcessUpstreamStep =>
            LET in == last'.upstream
                ref == in.Gcloud.SecretRef
            IN  ( /\ in.Type = "gcloud"
                  /\ ref \in DOMAIN secrets
                  /\ secrets[ref].Kind = "gcloud" )
                => /\ secrets[ref].AccessKey = << >> => ErrNames(last'.err, accessKey)
                   /\ last'.err = NoErr =>
                         discoverySecretErr(secrets[ref].AccessKey, secrets[ref].JsonKey)
                             = NoErr]_vars

\* the discovery called the provider with a secret whose access key is empty
C18_Witness ==
    /\ pc = "sleep"
    /\ attempt.ran
    /\ attempt.called
    /\ attempt.err = NoErr
    /\ fUpstream.Gcloud.SecretRef \in DOMAIN depSecrets
    /\ depSecrets[fUpstream.Gcloud.SecretRef].Kind = "gcloud"
    /\ depSecrets[fUpstream.Gcloud.SecretRef].AccessKey = << >>
    /\ upstreamSecretErrs(<< >>, depSecrets[fUpstream.Gcloud.SecretRef].JsonKey) # NoErr

(***************************************************************************)
(* Routes to an upstream whose ProcessUpstream failed                      *)
(***************************************************************************)
\* the gcloud upstreams of this pass for which ProcessUpstream returned an error
FailedInPass == { r \in GcloudInPass : pass[r].err # NoErr }

\* C19: a gcloud upstream is recorded before its secret is resolved, so when
\* ProcessUpstream returned an error for it (secret not found, of another
\* kind, or with bad fields), a route of the same pass that targets it and
\* names a function of its list is translated by ProcessRoute without error.
C19_RecordedBeforeSecret ==
    \A b \in FailedInPass :
        /\ b \in DOMAIN recordedUpstreams
        /\ recordedUpstreams[b] = pass[b].in.Gcloud
        /\ ( /\ last.op = "ProcessRoute"
             /\ last.route.DestinationSpec = "gcloud"
             /\ last.route.Upstream = b
             /\ HasName(pass[b].in.Gcloud.GfuncFunctions, last.route.LogicalName) )
           => /\ last.err = NoErr
              /\ SomeMatch(pass[b].in.Gcloud.GfuncFunctions, last.route.LogicalName,
                           last.perFilter.gcloud)

C19_Witness ==
    \E b \in FailedInPass :
        /\ last.op = "ProcessRoute"
        /\ last.route.DestinationSpec = "gcloud"
        /\ last.route.Upstream = b
        /\ HasName(pass[b].in.Gcloud.GfuncFunctions, last.route.LogicalName)
        /\ last.err = NoErr
        /\ last.perFilter.gcloud # NoConfig

(***************************************************************************)
(* A run of the callback that fails before the write-back                  *)
(***************************************************************************)
\* the errors of DetectFunctionsOnce, by their text
BeforeWriteBack ==
    { "not a gfunc upstream spec", "secrets not found for secret ref",
      "provided secret is not an gcloud secret", "not a valid string",
      "creating google oauth2 client", "unable to get list of GCF functions" }

\* C20: a run of the callback that fails before the write-back (at the
\* secret lookup, the validation of the secret or the list call) never
\* calls updatecb, so a failed poll leaves the stored function list as it
\* was: it is not cleared and not partly updated.
C20_FailedPollKeepsList ==
    [][PollStep =>
        /\ attempt'.err # NoErr =>
              /\ stored' = stored
              /\ attempt'.written = << >>
        /\ (attempt'.err # NoErr /\ attempt'.err[1].msg \in BeforeWriteBack)
              => ~attempt'.updated
        /\ attempt'.updated <=>
              (attempt'.err = NoErr
               \/ (attempt'.err # NoErr
                   /\ attempt'.err[1].msg = "unable to update upstream"))]_vars

\* the list call failed and the functions written by an earlier run are
\* still stored
C20_Witness ==
    /\ pc = "backoff"
    /\ attempt.called
    /\ ~attempt.updated
    /\ attempt.err = Err("unable to get list of GCF functions", "")
    /\ stored.State = "gcloud"
    /\ HasDiscovered(stored.Gcloud.GfuncFunctions)

(***************************************************************************)
(* The shared transformsAdded flag                                         *)
(***************************************************************************)
\* C21: the shared transformsAdded flag only ever goes from false to true:
\* it is set by a call of ProcessRoute for a route with a gcloud
\* DestinationSpec and ResponseTransformation on, whose function was
\* resolved, and by nothing else; once true it stays true through every
\* later Init and pass.
C21_FlagMonotonic ==
    [][/\ transformsAdded => transformsAdded'
       /\ (~transformsAdded /\ transformsAdded') =>
             /\ last'.op = "ProcessRoute"
             /\ last'.route.DestinationSpec = "gcloud"
             /\ last'.route.ResponseTransformation
             /\ last'.err = NoErr
             /\ last'.route.Upstream \in DOMAIN recordedUpstreams
             /\ SomeMatch(recordedUpstreams[last'.route.Upstream].GfuncFunctions,
                          last'.route.LogicalName, last'.perFilter.gcloud)]_vars

(***************************************************************************)
(* The cluster of an upstream whose ProcessUpstream failed                 *)
(***************************************************************************)
\* C22: when ProcessUpstream returns an error for a gcloud upstream the
\* cluster is not as it was handed in: its discovery type, DNS lookup
\* family, endpoint and SNI are set and only the protocol options with the
\* credentials are missing; the protocol options are set exactly when
\* ProcessUpstream returns no error.
C22_ClusterSetOnError ==
    (last.op = "ProcessUpstream" /\ last.upstream.Type = "gcloud") =>
        LET hostname == getGfuncHostname(last.upstream.Gcloud)
        IN  /\ last.cluster.ClusterDiscoveryType = "LOGICAL_DNS"
            /\ last.cluster.DnsLookupFamily = "V4_ONLY"
            /\ last.cluster.LoadAssignment = << hostname, 443 >>
            /\ last.cluster.Sni = hostname
            /\ last.cluster.ExtensionProtocolOptions # << >> <=> last.err = NoErr
            /\ last.err # NoErr =>
                  /\ last.cluster # last.outBefore
                  /\ last.cluster.ExtensionProtocolOptions
                        = last.outBefore.ExtensionProtocolOptions
            /\ last.err = NoErr =>
                  last.cluster.ExtensionProtocolOptions[1] = filterName

C22_Witness ==
    /\ last.op = "ProcessUpstream"
    /\ last.upstream.Type = "gcloud"
    /\ last.err # NoErr
    /\ last.cluster.Sni = getGfuncHostname(last.upstream.Gcloud)
    /\ last.cluster.ClusterDiscoveryType = "LOGICAL_DNS"
    /\ last.cluster.ExtensionProtocolOptions = << >>

====
